---- MODULE Spec2Model ----
(***************************************************************************)
(* Model of metagpt/tools/tool_registry.py: the tool registry (primary    *)
(* name -> Tool mapping and tag index), the registration entrypoint, the   *)
(* static (decorator) and dynamic (file / directory scan) registration     *)
(* pathways, and validate_tool_names.                                      *)
(*                                                                         *)
(* A Python str is a sequence of tokens, each token standing for a piece   *)
(* of the string ("metagpt", ".py", a file stem, ...): "" is <<>>,         *)
(* concatenation is \o.  A Python dict is a function, except the tag       *)
(* index, whose key order get_tool_tags exposes: it is a sequence of       *)
(* [key, val] items in insertion order.                                    *)
(***************************************************************************)
EXTENDS Integers, Sequences, FiniteSets, TLC

VARIABLES
    tools,          \* TOOL_REGISTRY.tools: name -> Tool
    tools_by_tags,  \* TOOL_REGISTRY.tools_by_tags: items [key |-> tag, val |-> name -> Tool]
    schema_files,   \* the schema files on disk: path -> dumped schema
    call            \* the operation that just returned (or raised), Idle between operations

vars == <<tools, tools_by_tags, schema_files, call>>

-----------------------------------------------------------------------------
(* Bounds *)

\* longest identifier list handed to validate_tool_names
MaxIds == 2

-----------------------------------------------------------------------------
(* Python values *)

\* None, as returned by dict.get for a missing key
None == [is_none |-> TRUE]

\* the empty dict {}
EmptyDict == <<>>

\* d.update(e) for dicts modelled as functions
DictUpdate(d, e) ==
    [k \in (DOMAIN d) \cup (DOMAIN e) |-> IF k \in DOMAIN e THEN e[k] ELSE d[k]]

\* keys of an insertion-ordered dict, in order
ItemKeys(items) == [i \in 1..Len(items) |-> items[i].key]

\* key in d, for an insertion-ordered dict
ItemHas(items, k) == \E i \in 1..Len(items) : items[i].key = k

\* d.get(k, default) for an insertion-ordered dict
ItemGet(items, k, default) ==
    IF ItemHas(items, k)
    THEN items[CHOOSE i \in 1..Len(items) : items[i].key = k].val
    ELSE default

\* mutant of DefaultDictGet: d[k], which makes a defaultdict insert a missing key
DefaultDictGet_index(items, k, default) ==
    IF ItemHas(items, k)
    THEN [items |-> items, ret |-> ItemGet(items, k, default)]
    ELSE [items |-> Append(items, [key |-> k, val |-> default]), ret |-> default]

\* d.get(k, default) for a defaultdict: the value returned and the dict after
\* the call (get never inserts the default)
DefaultDictGet(items, k, default) ==
    [items |-> items, ret |-> ItemGet(items, k, default)]

\* "metagpt" in file_path
HasMetagpt(file_path) == \E i \in 1..Len(file_path) : file_path[i] = "metagpt"

\* "metagpt" + file_path.split("metagpt")[-1]
AfterLastMetagpt(file_path) ==
    LET last == CHOOSE i \in 1..Len(file_path) :
                    /\ file_path[i] = "metagpt"
                    /\ \A j \in (i+1)..Len(file_path) : file_path[j] # "metagpt"
    IN  <<"metagpt">> \o SubSeq(file_path, last + 1, Len(file_path))

\* the rewrite of a path inside the project tree to its project-relative form
NormalizePath(file_path) ==
    IF HasMetagpt(file_path) THEN AfterLastMetagpt(file_path) ELSE file_path

\* mutant of EndsWithPy: every path passes
EndsWithPy_any(path) == TRUE

\* path.endswith(".py")
EndsWithPy(path) == Len(path) > 0 /\ path[Len(path)] = ".py"

\* os.path.splitext(os.path.basename(filepath))[0]: the stem of a file path
ModuleName(filepath) ==
    IF Len(filepath) >= 2 THEN <<filepath[Len(filepath) - 1]>> ELSE filepath

\* metagpt.const.TOOL_SCHEMA_PATH
TOOL_SCHEMA_PATH == <<"schemas">>

-----------------------------------------------------------------------------
(* The file system and the code objects the operations are run on *)

\* a class or function object: __name__, __module__, the file and source text
\* inspect reports for it, and what the schema converter does with it
Obj(name, kind, module, file, conv) ==
    [name |-> name, kind |-> kind, module |-> module, file |-> file,
     source |-> <<"src">> \o name, conv |-> conv]

FileA == <<"W", "a", ".py">>
FileB == <<"W", "b", ".py">>
FileC == <<"X", "metagpt", "c", ".py">>
FileBad == <<"Z", "bad", ".py">>
FileE == <<"Z", "e", ".py">>
FileTxt == <<"X", "n", ".txt">>

\* def f in W/a.py: converts to a conforming schema
Obj_f == Obj(<<"f">>, "function", <<"a">>, FileA, "ok")
\* class C in W/b.py: converts to a schema without description
Obj_C == Obj(<<"C">>, "class", <<"b">>, FileB, "nonconforming")
\* a module-level value of W/b.py that is neither class nor function
Obj_v == Obj(<<"v">>, "other", <<"b">>, FileB, "raises")
\* def T in X/metagpt/c.py, declared with @register_tool(tags=["T"])
Obj_T == Obj(<<"T">>, "function", <<"c">>, FileC, "ok")
\* def g in X/metagpt/c.py: the converter raises on it
Obj_g == Obj(<<"g">>, "function", <<"c">>, FileC, "raises")
\* class X, defined in no scanned file: the converter returns an empty schema
Obj_X0 == Obj(<<"X">>, "class", <<"lib">>, <<"lib", ".py">>, "empty")
\* def T of a library outside the scanned directories
Obj_T2 == Obj(<<"T">>, "function", <<"lib">>, <<"lib", ".py">>, "ok")
\* class X of a library inside the project tree: converts to a conforming schema
Obj_X == Obj(<<"X">>, "class", <<"metagpt", "lib">>, <<"home", "metagpt", "lib", ".py">>, "ok")

\* the files of the file system
Files == {FileA, FileB, FileC, FileBad, FileE, FileTxt}

\* os.path.isfile
IsFile(path) == path \in Files

\* os.path.isdir
IsDir(path) == path \in {<<"W">>, <<"X">>, <<"X", "metagpt">>, <<"Z">>}

\* the sub-directories and files of a directory (names, not paths)
DirEntries(path) ==
    CASE path = <<"W">> -> [dirs |-> {}, files |-> {<<"a", ".py">>, <<"b", ".py">>}]
      [] path = <<"X">> -> [dirs |-> {<<"metagpt">>}, files |-> {<<"n", ".txt">>}]
      [] path = <<"X", "metagpt">> -> [dirs |-> {}, files |-> {<<"c", ".py">>}]
      [] path = <<"Z">> -> [dirs |-> {}, files |-> {<<"bad", ".py">>, <<"e", ".py">>}]
      [] OTHER -> [dirs |-> {}, files |-> {}]

\* a tags argument: None or a list of tags
TagsNone == [is_none |-> TRUE, val |-> <<>>]
TagsList(l) == [is_none |-> FALSE, val |-> l]

\* what executing a file as a module does: whether it raises, the
\* @register_tool declarations it runs, and inspect.getmembers of the module
\* (sorted by name)
FileContent(filepath) ==
    CASE filepath = FileA ->
            [raises |-> FALSE, decorated |-> <<>>, members |-> <<Obj_f>>]
      [] filepath = FileB ->
            [raises |-> FALSE, decorated |-> <<>>, members |-> <<Obj_C, Obj_f, Obj_v>>]
      [] filepath = FileC ->
            [raises |-> FALSE,
             decorated |-> <<[obj |-> Obj_T, tags |-> TagsList(<< <<"T">> >>)]>>,
             members |-> <<Obj_T, Obj_g>>]
      [] filepath = FileE ->
            [raises |-> FALSE, decorated |-> <<>>, members |-> <<>>]
      [] OTHER ->
            [raises |-> TRUE, decorated |-> <<>>, members |-> <<>>]

-----------------------------------------------------------------------------
(* External collaborators *)

\* convert_code_to_tool_schema: the schema of a code object, or a raise
convert_code_to_tool_schema(obj) ==
    CASE obj.conv = "ok" ->
            [raised |-> FALSE, schema |-> [type |-> obj.kind, description |-> obj.source]]
      [] obj.conv = "nonconforming" ->
            [raised |-> FALSE, schema |-> [type |-> obj.kind]]
      [] obj.conv = "empty" ->
            [raised |-> FALSE, schema |-> EmptyDict]
      [] OTHER ->
            [raised |-> TRUE, schema |-> EmptyDict]

\* ToolSchema(**schemas) validates: the schema has the required description
ToolSchemaAccepts(schemas) == "description" \in DOMAIN schemas

-----------------------------------------------------------------------------
(* The world an operation runs in and changes: the registry, the schema    *)
(* files, the log, the files loaded as modules and the objects handed to   *)
(* the schema converter so far, and whether an exception is propagating    *)

World(t, tbt, sf) ==
    [tools |-> t, tools_by_tags |-> tbt, schema_files |-> sf,
     log |-> <<>>, loaded |-> <<>>, converted |-> <<>>, raised |-> FALSE]

Log(w, level, about) ==
    [w EXCEPT !.log = Append(@, [level |-> level, about |-> about])]

\* ToolRegistry.has_tool
has_tool(w, key) == key \in DOMAIN w.tools

\* ToolRegistry.get_tool
get_tool(w, key) == IF key \in DOMAIN w.tools THEN w.tools[key] ELSE None

\* ToolRegistry.get_tools_by_tag
get_tools_by_tag(w, key) == DefaultDictGet(w.tools_by_tags, key, EmptyDict).ret

\* ToolRegistry.get_all_tools
get_all_tools(w) == w.tools

\* ToolRegistry.has_tool_tag
has_tool_tag(w, key) == ItemHas(w.tools_by_tags, key)

\* ToolRegistry.get_tool_tags
get_tool_tags(w) == ItemKeys(w.tools_by_tags)

\* mutant of make_schema: a raise of the converter is not caught
make_schema_propagates(w, tool_source_object, path) ==
    CHOOSE r \in
        {IF conv.raised
         THEN [w |-> [w EXCEPT !.converted = Append(@, tool_source_object),
                               !.raised = TRUE],
               schema |-> EmptyDict]
         ELSE [w |-> [w EXCEPT !.converted = Append(@, tool_source_object),
                               !.schema_files =
                                   DictUpdate(@, [p \in {path} |-> conv.schema])],
               schema |-> conv.schema] :
            conv \in {convert_code_to_tool_schema(tool_source_object)}} : TRUE

\* mutant of make_schema: the schema is not written to the file
make_schema_no_dump(w, tool_source_object, path) ==
    CHOOSE r \in
        {IF conv.raised
         THEN [w |-> [w EXCEPT !.converted = Append(@, tool_source_object),
                               !.log = Append(@, [level |-> "error", about |-> path])],
               schema |-> EmptyDict]
         ELSE [w |-> [w EXCEPT !.converted = Append(@, tool_source_object)],
               schema |-> conv.schema] :
            conv \in {convert_code_to_tool_schema(tool_source_object)}} : TRUE

\* make_schema: convert, dump the schema to path; a raise in either is
\* caught, logged and turned into the empty schema (the directory of path is
\* taken to be creatable and the file writable: a raise comes from the converter)
make_schema(w, tool_source_object, path) ==
    CHOOSE r \in
        {IF conv.raised
         THEN [w |-> [w EXCEPT !.converted = Append(@, tool_source_object),
                               !.log = Append(@, [level |-> "error", about |-> path])],
               schema |-> EmptyDict]
         ELSE [w |-> [w EXCEPT !.converted = Append(@, tool_source_object),
                               !.schema_files =
                                   DictUpdate(@, [p \in {path} |-> conv.schema])],
               schema |-> conv.schema] :
            conv \in {convert_code_to_tool_schema(tool_source_object)}} : TRUE

\* mutant of TagIndexAdd: the bucket is assigned, not updated
TagIndexAdd_assign(items, tag, tool_name, tool) ==
    IF ItemHas(items, tag)
    THEN [i \in 1..Len(items) |->
            IF items[i].key = tag
            THEN [key |-> tag, val |-> [n \in {tool_name} |-> tool]]
            ELSE items[i]]
    ELSE Append(items, [key |-> tag, val |-> [n \in {tool_name} |-> tool]])

\* mutant of TagIndexAdd: a new bucket is appended for every tag of the list,
\* known or not
TagIndexAdd_appends(items, tag, tool_name, tool) ==
    Append(items, [key |-> tag, val |-> [n \in {tool_name} |-> tool]])

\* self.tools_by_tags[tag].update({tool_name: tool}) on the defaultdict
TagIndexAdd(items, tag, tool_name, tool) ==
    IF ItemHas(items, tag)
    THEN [i \in 1..Len(items) |->
            IF items[i].key = tag
            THEN [key |-> tag,
                  val |-> DictUpdate(items[i].val, [n \in {tool_name} |-> tool])]
            ELSE items[i]]
    ELSE Append(items, [key |-> tag, val |-> [n \in {tool_name} |-> tool]])

\* for tag in tags: self.tools_by_tags[tag].update({tool_name: tool})
RECURSIVE TagIndexAddAll(_, _, _, _)
TagIndexAddAll(items, tags, tool_name, tool) ==
    IF tags = <<>>
    THEN items
    ELSE CHOOSE r \in
            {TagIndexAddAll(items1, rest, tool_name, tool) :
                items1 \in {TagIndexAdd(items, Head(tags), tool_name, tool)},
                rest \in {Tail(tags)}} : TRUE

\* mutant of validate_schema: a shape mismatch is not swallowed
validate_schema_strict(schemas) ==
    IF ToolSchemaAccepts(schemas) THEN "valid" ELSE "raised"

\* try: ToolSchema(**schemas) / except Exception: pass
\* the outcome of the guarded shape check; a mismatch is swallowed
validate_schema(schemas) ==
    IF ToolSchemaAccepts(schemas) THEN "valid" ELSE "swallowed"

\* Tool(name=..., path=..., schemas=..., code=..., tags=...)
Tool(name, path, schemas, code, tags) ==
    [name |-> name, path |-> path, schemas |-> schemas, code |-> code, tags |-> tags]

\* ToolRegistry.register_tool, from "schemas['tool_path'] = tool_path" on:
\* the shape check, the Tool record, the primary mapping and the tag index
StoreTool(w, tool_name, tool_path, schema_path, tool_code, tags, schema, verbose) ==
    LET schemas == DictUpdate(schema, [tool_path |-> tool_path])
        taglist == IF tags.is_none \/ tags.val = <<>> THEN <<>> ELSE tags.val
        tool == Tool(tool_name, tool_path, schemas, tool_code, taglist)
    IN  IF validate_schema(schemas) = "raised"
        THEN [w EXCEPT !.raised = TRUE]
        ELSE [w EXCEPT
                !.tools = DictUpdate(@, [n \in {tool_name} |-> tool]),
                !.tools_by_tags = TagIndexAddAll(@, taglist, tool_name, tool),
                !.log = IF verbose
                        THEN @ \o <<[level |-> "info", about |-> tool_name],
                                    [level |-> "info", about |-> schema_path]>>
                        ELSE @]

\* schema_path or TOOL_SCHEMA_PATH / f"{tool_name}.yml"
SchemaPath(schema_path, tool_name) ==
    IF schema_path # <<>> THEN schema_path
    ELSE TOOL_SCHEMA_PATH \o tool_name \o <<".yml">>

\* mutant of ToolRegistry.register_tool: no check for a name already stored
register_tool_overwrites(w, tool_name, tool_path, schema_path, tool_code, tags, tool_source_object, verbose) ==
    CHOOSE r \in
        {IF made.schema = EmptyDict
         THEN made.w
         ELSE StoreTool(made.w, tool_name, tool_path, SchemaPath(schema_path, tool_name),
                        tool_code, tags, made.schema, verbose) :
            made \in {make_schema(w, tool_source_object,
                                  SchemaPath(schema_path, tool_name))}} : TRUE

\* mutant of ToolRegistry.register_tool: the schema is made before the check
\* for a name already stored
register_tool_makes_schema_first(w, tool_name, tool_path, schema_path, tool_code, tags, tool_source_object, verbose) ==
    CHOOSE r \in
        {IF has_tool(w, tool_name) \/ made.schema = EmptyDict
         THEN made.w
         ELSE StoreTool(made.w, tool_name, tool_path, SchemaPath(schema_path, tool_name),
                        tool_code, tags, made.schema, verbose) :
            made \in {make_schema(w, tool_source_object,
                                  SchemaPath(schema_path, tool_name))}} : TRUE

\* mutant of ToolRegistry.register_tool: an empty schema does not end the call
register_tool_keeps_empty(w, tool_name, tool_path, schema_path, tool_code, tags, tool_source_object, verbose) ==
    IF has_tool(w, tool_name)
    THEN w
    ELSE CHOOSE r \in
            {StoreTool(made.w, tool_name, tool_path, SchemaPath(schema_path, tool_name),
                        tool_code, tags, made.schema, verbose) :
                made \in {make_schema(w, tool_source_object,
                                      SchemaPath(schema_path, tool_name))}} : TRUE

\* ToolRegistry.register_tool
ToolRegistry_register_tool(w, tool_name, tool_path, schema_path, tool_code, tags, tool_source_object, verbose) ==
    IF has_tool(w, tool_name)
    THEN w
    ELSE CHOOSE r \in
            {IF made.schema = EmptyDict
             THEN made.w
             ELSE StoreTool(made.w, tool_name, tool_path, SchemaPath(schema_path, tool_name),
                        tool_code, tags, made.schema, verbose) :
                made \in {make_schema(w, tool_source_object,
                                      SchemaPath(schema_path, tool_name))}} : TRUE

\* the register_tool decorator applied to a class or function
register_tool(w, tags, schema_path, cls) ==
    ToolRegistry_register_tool(w, cls.name, NormalizePath(cls.file), schema_path,
                               cls.source, tags, cls, FALSE)

-----------------------------------------------------------------------------
(* Dynamic discovery                                                       *)
(*                                                                         *)
(* A statement "x = e; rest" is written CHOOSE r \in {rest : x \in {e}} :  *)
(* TRUE, which binds x to the value of e once, as the assignment does.     *)

\* the declarations of a module body, run in order as the module executes
RECURSIVE RunDecorators(_, _)
RunDecorators(w, decorated) ==
    IF decorated = <<>>
    THEN w
    ELSE CHOOSE r \in
            {RunDecorators(w1, rest) :
                w1 \in {register_tool(w, Head(decorated).tags, <<>>, Head(decorated).obj)},
                rest \in {Tail(decorated)}} : TRUE

\* load_module_from_file: executes the file; a failure to execute propagates
load_module_from_file(w, filepath) ==
    CHOOSE r \in
        {IF content.raises
         THEN [w |-> [w EXCEPT !.loaded = Append(@, filepath), !.raised = TRUE],
               module |-> [name |-> ModuleName(filepath), members |-> <<>>]]
         ELSE [w |-> RunDecorators([w EXCEPT !.loaded = Append(@, filepath)],
                                   content.decorated),
               module |-> [name |-> ModuleName(filepath), members |-> content.members]] :
            content \in {FileContent(filepath)}} : TRUE

\* mutant of ScanMember: the member's declaring module is not looked at
ScanMember_any_module(st, module_name, obj) ==
    IF obj.kind \in {"class", "function"}
    THEN CHOOSE r \in
            {[w |-> w1, file_path |-> fp,
              ret |-> DictUpdate(st.ret, [n \in {obj.name} |-> get_tool(w1, obj.name)])] :
                fp \in {NormalizePath(st.file_path)},
                w1 \in {ToolRegistry_register_tool(st.w, obj.name,
                                                   NormalizePath(st.file_path), <<>>, <<>>,
                                                   TagsNone, obj, FALSE)}} : TRUE
    ELSE st

\* mutant of ScanMember: a discovered tool is tagged with its module's name
ScanMember_tags_module(st, module_name, obj) ==
    IF obj.kind \in {"class", "function"} /\ obj.module = module_name
    THEN CHOOSE r \in
            {[w |-> w1, file_path |-> fp,
              ret |-> DictUpdate(st.ret, [n \in {obj.name} |-> get_tool(w1, obj.name)])] :
                fp \in {NormalizePath(st.file_path)},
                w1 \in {ToolRegistry_register_tool(st.w, obj.name,
                                                   NormalizePath(st.file_path), <<>>, <<>>,
                                                   TagsList(<<module_name>>), obj, FALSE)}} : TRUE
    ELSE st

\* one pass of the loop of register_tools_from_file over
\* inspect.getmembers(module): the state after handling obj
ScanMember(st, module_name, obj) ==
    IF obj.kind \in {"class", "function"} /\ obj.module = module_name
    THEN CHOOSE r \in
            {[w |-> w1, file_path |-> fp,
              ret |-> DictUpdate(st.ret, [n \in {obj.name} |-> get_tool(w1, obj.name)])] :
                fp \in {NormalizePath(st.file_path)},
                w1 \in {ToolRegistry_register_tool(st.w, obj.name,
                                                   NormalizePath(st.file_path), <<>>, <<>>,
                                                   TagsNone, obj, FALSE)}} : TRUE
    ELSE st

RECURSIVE ScanMembers(_, _, _)
ScanMembers(st, module_name, members) ==
    IF members = <<>>
    THEN st
    ELSE CHOOSE r \in
            {ScanMembers(st1, module_name, rest) :
                st1 \in {ScanMember(st, module_name, Head(members))},
                rest \in {Tail(members)}} : TRUE

\* register_tools_from_file
register_tools_from_file(w, file_path) ==
    CHOOSE r \in
        {IF loaded.w.raised
         THEN [w |-> loaded.w, ret |-> EmptyDict]
         ELSE CHOOSE sr \in
                {[w |-> st.w, ret |-> st.ret] :
                    st \in {ScanMembers([w |-> loaded.w, file_path |-> file_path,
                                         ret |-> EmptyDict],
                                        loaded.module.name, loaded.module.members)}} : TRUE :
            loaded \in {load_module_from_file(w, file_path)}} : TRUE

\* all orders in which the members of a set can be listed
Perms(S) ==
    {s \in [1..Cardinality(S) -> S] : \A i, j \in 1..Cardinality(S) : s[i] = s[j] => i = j}

Dirs == {<<"W">>, <<"X">>, <<"X", "metagpt">>, <<"Z">>}

\* the orders in which os.walk may list each directory (written as the image
\* of the set of listings, so that the set is enumerated once)
Listings ==
    {x : x \in
        {l \in [Dirs -> UNION {[dirs : Perms(DirEntries(d).dirs),
                                files : Perms(DirEntries(d).files)] : d \in Dirs}] :
            \A d \in Dirs : /\ l[d].dirs \in Perms(DirEntries(d).dirs)
                            /\ l[d].files \in Perms(DirEntries(d).files)}}

\* the listings to run a call on the given paths with: the order of a
\* directory that the call does not walk cannot matter to it and is fixed
ListingsFor(paths) ==
    LET fixed == CHOOSE l \in Listings : TRUE
        walked(d) == \E p \in paths :
                        Len(p) <= Len(d) /\ SubSeq(d, 1, Len(p)) = p
    IN  {l \in Listings : \A d \in Dirs : ~walked(d) => l[d] = fixed[d]}

\* os.walk(path), top-down, flattened to the os.path.join(root, file) of
\* every file in the order the loops of register_tools_from_path visit them
RECURSIVE WalkFiles(_, _), WalkSubdirs(_, _, _)
WalkFiles(top, listing) ==
    [i \in 1..Len(listing[top].files) |-> top \o listing[top].files[i]]
        \o WalkSubdirs(top, listing[top].dirs, listing)
WalkSubdirs(top, dirs, listing) ==
    IF dirs = <<>>
    THEN <<>>
    ELSE WalkFiles(top \o Head(dirs), listing) \o WalkSubdirs(top, Tail(dirs), listing)

RECURSIVE ScanFiles(_, _)

\* mutant of ScanFiles: after a load failure the remaining files are still
\* scanned and the failure is raised at the end
ScanFiles_continues(st, files) ==
    IF files = <<>>
    THEN st
    ELSE IF EndsWithPy(Head(files))
         THEN CHOOSE r \in
                {ScanFiles([w |-> fr.w, ret |-> DictUpdate(st.ret, fr.ret)], rest) :
                    fr \in {register_tools_from_file(st.w, Head(files))},
                    rest \in {Tail(files)}} : TRUE
         ELSE CHOOSE r \in {ScanFiles(st, rest) : rest \in {Tail(files)}} : TRUE

\* the directory branch of register_tools_from_path: the loop over the files
ScanFiles(st, files) ==
    IF files = <<>> \/ st.w.raised
    THEN st
    ELSE IF EndsWithPy(Head(files))
         THEN CHOOSE r \in
                {ScanFiles([w |-> fr.w, ret |-> DictUpdate(st.ret, fr.ret)], rest) :
                    fr \in {register_tools_from_file(st.w, Head(files))},
                    rest \in {Tail(files)}} : TRUE
         ELSE CHOOSE r \in {ScanFiles(st, rest) : rest \in {Tail(files)}} : TRUE

\* register_tools_from_path
register_tools_from_path(w, path, listing) ==
    IF IsFile(path) /\ EndsWithPy(path)
    THEN register_tools_from_file(w, path)
    ELSE IF IsDir(path)
         THEN CHOOSE r \in
                {ScanFiles([w |-> w, ret |-> EmptyDict], files) :
                    files \in {WalkFiles(path, listing)}} : TRUE
         ELSE [w |-> w, ret |-> EmptyDict]

-----------------------------------------------------------------------------
(* The identifier resolver *)

\* mutant of ValidateKey: a tool name replaces the result collected so far
ValidateKey_assigns(st, key, listing) ==
    IF IsDir(key) \/ IsFile(key)
    THEN CHOOSE r \in
            {[w |-> pr.w, ret |-> DictUpdate(st.ret, pr.ret)] :
                pr \in {register_tools_from_path(st.w, key, listing)}} : TRUE
    ELSE IF has_tool(st.w, key)
    THEN [w |-> st.w, ret |-> [n \in {key} |-> get_tool(st.w, key)]]
    ELSE IF has_tool_tag(st.w, key)
    THEN [w |-> st.w, ret |-> DictUpdate(st.ret, get_tools_by_tag(st.w, key))]
    ELSE [w |-> Log(st.w, "warning", key), ret |-> st.ret]

\* mutant of ValidateKey: tool names and tags are tried before paths
ValidateKey_names_first(st, key, listing) ==
    IF has_tool(st.w, key)
    THEN [w |-> st.w, ret |-> DictUpdate(st.ret, [n \in {key} |-> get_tool(st.w, key)])]
    ELSE IF has_tool_tag(st.w, key)
    THEN [w |-> st.w, ret |-> DictUpdate(st.ret, get_tools_by_tag(st.w, key))]
    ELSE IF IsDir(key) \/ IsFile(key)
    THEN CHOOSE r \in
            {[w |-> pr.w, ret |-> DictUpdate(st.ret, pr.ret)] :
                pr \in {register_tools_from_path(st.w, key, listing)}} : TRUE
    ELSE [w |-> Log(st.w, "warning", key), ret |-> st.ret]

\* mutant of ValidateKey: a path that yields no tool is reported as invalid
ValidateKey_warns_empty_path(st, key, listing) ==
    IF IsDir(key) \/ IsFile(key)
    THEN CHOOSE r \in
            {[w |-> IF pr.ret = EmptyDict /\ ~pr.w.raised
                    THEN Log(pr.w, "warning", key) ELSE pr.w,
              ret |-> DictUpdate(st.ret, pr.ret)] :
                pr \in {register_tools_from_path(st.w, key, listing)}} : TRUE
    ELSE IF has_tool(st.w, key)
    THEN [w |-> st.w, ret |-> DictUpdate(st.ret, [n \in {key} |-> get_tool(st.w, key)])]
    ELSE IF has_tool_tag(st.w, key)
    THEN [w |-> st.w, ret |-> DictUpdate(st.ret, get_tools_by_tag(st.w, key))]
    ELSE [w |-> Log(st.w, "warning", key), ret |-> st.ret]

\* mutant of ValidateKey: the tag test indexes the tag index, which inserts
\* an empty bucket for an identifier that is no tag
ValidateKey_indexes_tag(st, key, listing) ==
    IF IsDir(key) \/ IsFile(key)
    THEN CHOOSE r \in
            {[w |-> pr.w, ret |-> DictUpdate(st.ret, pr.ret)] :
                pr \in {register_tools_from_path(st.w, key, listing)}} : TRUE
    ELSE IF has_tool(st.w, key)
    THEN [w |-> st.w, ret |-> DictUpdate(st.ret, [n \in {key} |-> get_tool(st.w, key)])]
    ELSE IF has_tool_tag(st.w, key)
    THEN [w |-> st.w, ret |-> DictUpdate(st.ret, get_tools_by_tag(st.w, key))]
    ELSE [w |-> Log([st.w EXCEPT !.tools_by_tags =
                                    Append(@, [key |-> key, val |-> EmptyDict])],
                    "warning", key),
          ret |-> st.ret]

\* one pass of the loop of validate_tool_names: the state after handling key
ValidateKey(st, key, listing) ==
    IF IsDir(key) \/ IsFile(key)
    THEN CHOOSE r \in
            {[w |-> pr.w, ret |-> DictUpdate(st.ret, pr.ret)] :
                pr \in {register_tools_from_path(st.w, key, listing)}} : TRUE
    ELSE IF has_tool(st.w, key)
    THEN [w |-> st.w, ret |-> DictUpdate(st.ret, [n \in {key} |-> get_tool(st.w, key)])]
    ELSE IF has_tool_tag(st.w, key)
    THEN [w |-> st.w, ret |-> DictUpdate(st.ret, get_tools_by_tag(st.w, key))]
    ELSE [w |-> Log(st.w, "warning", key), ret |-> st.ret]

RECURSIVE ValidateLoop(_, _, _)
ValidateLoop(st, keys, listing) ==
    IF keys = <<>> \/ st.w.raised
    THEN st
    ELSE CHOOSE r \in
            {ValidateLoop(st1, rest, listing) :
                st1 \in {ValidateKey(st, Head(keys), listing)},
                rest \in {Tail(keys)}} : TRUE

\* validate_tool_names
validate_tool_names(w, tools_arg, listing) ==
    ValidateLoop([w |-> w, ret |-> EmptyDict], tools_arg, listing)

-----------------------------------------------------------------------------
(* Inputs *)

\* the tags arguments registrations are made with
TagArgs ==
    {TagsNone, TagsList(<<>>), TagsList(<< <<"T">> >>),
     TagsList(<< <<"f">>, <<"X">>, <<"f">> >>)}

\* the strings used as tool names, tags and identifiers
Keys == {<<"f">>, <<"C">>, <<"T">>, <<"g">>, <<"X">>, <<"U">>}

\* the identifiers validate_tool_names is called with
Identifiers == {<<"W">>, <<"X">>, <<"T">>, <<"f">>, <<"U">>, <<"Z">>, FileTxt}

\* the paths discovery is called with
ScanPaths == {<<"W">>, <<"X">>, <<"Z">>, FileA, FileB, FileC, FileBad, FileTxt, <<"U">>}

\* the identifier lists of length at most MaxIds
IdLists == UNION {[1..n -> Identifiers] : n \in 0..MaxIds}

-----------------------------------------------------------------------------
(* The state machine *)

Idle == [op |-> "idle"]

TheWorld == World(tools, tools_by_tags, schema_files)

\* the registry and the schema files become those of world w
Commit(w) ==
    /\ tools' = w.tools
    /\ tools_by_tags' = w.tools_by_tags
    /\ schema_files' = w.schema_files

Init ==
    /\ tools = EmptyDict
    /\ tools_by_tags = <<>>
    /\ schema_files = EmptyDict
    /\ call = Idle

\* TOOL_REGISTRY.register_tool(...) called directly
RegisterTool ==
    /\ call = Idle
    /\ \E tool_source_object \in {Obj_C, Obj_g, Obj_X0},
          tags \in TagArgs, verbose \in BOOLEAN :
        \E w \in {ToolRegistry_register_tool(TheWorld, <<"f">>, <<"p", ".py">>, <<>>,
                                               <<"code">>, tags, tool_source_object,
                                               verbose)} :
            /\ Commit(w)
            /\ call' = [op |-> "register_tool", tool_name |-> <<"f">>,
                        tool_path |-> <<"p", ".py">>, tool_code |-> <<"code">>,
                        schema_path |-> SchemaPath(<<>>, <<"f">>),
                        tags |-> tags, obj |-> tool_source_object,
                        raised |-> w.raised, log |-> w.log,
                        converted |-> w.converted]

\* the @register_tool(...) declarations of the libraries that can be imported
Declarations ==
    {[cls |-> Obj_X, tags |-> TagsList(<< <<"f">>, <<"X">>, <<"f">> >>),
      schema_path |-> <<>>],
     [cls |-> Obj_X, tags |-> TagsList(<< <<"T">> >>),
      schema_path |-> <<"out", "s", ".yml">>],
     [cls |-> Obj_T2, tags |-> TagsNone, schema_path |-> <<>>]}

\* a module declaring a tool with @register_tool(...) is imported
Decorate ==
    /\ call = Idle
    /\ \E d \in Declarations :
        \E w \in {register_tool(TheWorld, d.tags, d.schema_path, d.cls)} :
            /\ Commit(w)
            /\ call' = [op |-> "register_tool", tool_name |-> d.cls.name,
                        tool_path |-> NormalizePath(d.cls.file),
                        tool_code |-> d.cls.source,
                        schema_path |-> SchemaPath(d.schema_path, d.cls.name),
                        tags |-> d.tags, obj |-> d.cls,
                        raised |-> w.raised, log |-> w.log,
                        converted |-> w.converted]

\* register_tools_from_file(file_path)
RegisterToolsFromFile ==
    /\ call = Idle
    /\ \E file_path \in {FileA, FileB, FileC, FileBad} :
        \E r \in {register_tools_from_file(TheWorld, file_path)} :
            /\ Commit(r.w)
            /\ call' = [op |-> "register_tools_from_file", path |-> file_path,
                        raised |-> r.w.raised,
                        ret |-> IF r.w.raised THEN None ELSE r.ret,
                        log |-> r.w.log, loaded |-> r.w.loaded,
                        converted |-> r.w.converted]

\* register_tools_from_path(path)
RegisterToolsFromPath ==
    /\ call = Idle
    /\ \E path \in ScanPaths : \E listing \in ListingsFor({path}) :
        \E r \in {register_tools_from_path(TheWorld, path, listing)} :
            /\ Commit(r.w)
            /\ call' = [op |-> "register_tools_from_path", path |-> path,
                        listing |-> listing,
                        raised |-> r.w.raised,
                        ret |-> IF r.w.raised THEN None ELSE r.ret,
                        log |-> r.w.log, loaded |-> r.w.loaded,
                        converted |-> r.w.converted]

\* validate_tool_names(tools)
ValidateToolNames ==
    /\ call = Idle
    /\ \E ids \in IdLists :
       \E listing \in ListingsFor({ids[i] : i \in 1..Len(ids)}) :
        \E r \in {validate_tool_names(TheWorld, ids, listing)} :
            /\ Commit(r.w)
            /\ call' = [op |-> "validate_tool_names", ids |-> ids,
                        listing |-> listing,
                        raised |-> r.w.raised,
                        ret |-> IF r.w.raised THEN None ELSE r.ret,
                        log |-> r.w.log, loaded |-> r.w.loaded,
                        converted |-> r.w.converted]

\* has_tool, get_tool, get_tools_by_tag, has_tool_tag
QueryKey ==
    /\ call = Idle
    /\ \E key \in Keys :
        \/ /\ call' = [op |-> "has_tool", key |-> key, ret |-> has_tool(TheWorld, key)]
           /\ UNCHANGED <<tools, tools_by_tags, schema_files>>
        \/ /\ call' = [op |-> "get_tool", key |-> key, ret |-> get_tool(TheWorld, key)]
           /\ UNCHANGED <<tools, tools_by_tags, schema_files>>
        \/ \E r \in {DefaultDictGet(tools_by_tags, key, EmptyDict)} :
            /\ call' = [op |-> "get_tools_by_tag", key |-> key, ret |-> r.ret]
            /\ tools_by_tags' = r.items
            /\ UNCHANGED <<tools, schema_files>>
        \/ /\ call' = [op |-> "has_tool_tag", key |-> key,
                        ret |-> has_tool_tag(TheWorld, key)]
           /\ UNCHANGED <<tools, tools_by_tags, schema_files>>

\* get_all_tools, get_tool_tags
QueryAll ==
    /\ call = Idle
    /\ \/ call' = [op |-> "get_all_tools", ret |-> get_all_tools(TheWorld)]
       \/ call' = [op |-> "get_tool_tags", ret |-> get_tool_tags(TheWorld)]
    /\ UNCHANGED <<tools, tools_by_tags, schema_files>>

\* the caller is done with the outcome of the operation
Return ==
    /\ call # Idle
    /\ call' = Idle
    /\ UNCHANGED <<tools, tools_by_tags, schema_files>>

Next ==
    \/ RegisterTool
    \/ Decorate
    \/ RegisterToolsFromFile
    \/ RegisterToolsFromPath
    \/ ValidateToolNames
    \/ QueryKey
    \/ QueryAll
    \/ Return

Spec == Init /\ [][Next]_vars

-----------------------------------------------------------------------------
(* Properties *)

\* the registry after the step
TheWorldNext == World(tools', tools_by_tags', schema_files')

\* the elements of a sequence
Range(seq) == {seq[i] : i \in 1..Len(seq)}

\* every tag and every tool name in play
AllTags == Keys \cup Range(get_tool_tags(TheWorld))
AllNames == Keys \cup DOMAIN tools

\* the operations that return a mapping name -> Tool
MappingOps == {"register_tools_from_file", "register_tools_from_path", "validate_tool_names"}

\* C1: once a tool name is in the primary mapping it stays there, and
\* get_tool(name) keeps returning the record the first successful registration
\* stored, whatever operation runs next.
C1_FirstRegistrationWins ==
    [][\A n \in DOMAIN tools :
          /\ has_tool(TheWorldNext, n)
          /\ get_tool(TheWorldNext, n) = get_tool(TheWorld, n)]_vars

\* a register_tool call for a name already stored under another path and
\* other tags has returned
C1_Witness ==
    /\ call.op = "register_tool"
    /\ has_tool(TheWorld, call.tool_name)
    /\ get_tool(TheWorld, call.tool_name).path # call.tool_path
    /\ get_tool(TheWorld, call.tool_name).tags # call.tags.val
    /\ call.tags.val # <<>>

\* C2: a register_tool call for a name already in the store changes neither
\* the primary mapping nor the tag index, hands nothing to the schema
\* converter, writes no schema file, logs nothing and raises nothing.
C2_DuplicateIsNoOp ==
    [][(/\ call = Idle
        /\ call'.op = "register_tool"
        /\ has_tool(TheWorld, call'.tool_name))
       => (/\ tools' = tools
           /\ tools_by_tags' = tools_by_tags
           /\ schema_files' = schema_files
           /\ call'.converted = <<>>
           /\ call'.log = <<>>
           /\ ~call'.raised)]_vars

\* a duplicate register_tool call has returned whose tags are not all known
\* tags and whose source object the converter raises on
C2_Witness ==
    /\ call.op = "register_tool"
    /\ has_tool(TheWorld, call.tool_name)
    /\ get_tool(TheWorld, call.tool_name).path # call.tool_path
    /\ \E t \in Range(call.tags.val) : ~has_tool_tag(TheWorld, t)
    /\ convert_code_to_tool_schema(call.obj).raised

\* C3: the tag index is the index derived from the primary mapping: n is a
\* key of get_tools_by_tag(t) exactly when n is a registered tool carrying tag
\* t, and the record held under (t, n) is get_tool(n).
C3_TagIndexConsistent ==
    \A t \in AllTags, n \in AllNames :
        /\ (n \in DOMAIN get_tools_by_tag(TheWorld, t))
             <=> (has_tool(TheWorld, n) /\ t \in Range(get_tool(TheWorld, n).tags))
        /\ (n \in DOMAIN get_tools_by_tag(TheWorld, t))
             => get_tools_by_tag(TheWorld, t)[n] = get_tool(TheWorld, n)

\* two tools share a tag and a third tool carries another tag
C3_Witness ==
    \E t1, t2 \in Range(get_tool_tags(TheWorld)), n \in DOMAIN tools :
        /\ t1 # t2
        /\ Cardinality(DOMAIN get_tools_by_tag(TheWorld, t1)) >= 2
        /\ n \notin DOMAIN get_tools_by_tag(TheWorld, t1)
        /\ n \in DOMAIN get_tools_by_tag(TheWorld, t2)

\* C4: when the schema converter raises or returns an empty schema during a
\* register_tool call, then after the call has_tool(name) is false,
\* get_tool(name) is None and no tag bucket holds name.
C4_ConversionFailureDropsTool ==
    (/\ call.op = "register_tool"
     /\ call.converted # <<>>
     /\ \/ convert_code_to_tool_schema(call.obj).raised
        \/ convert_code_to_tool_schema(call.obj).schema = EmptyDict)
    => (/\ call.tool_name \notin DOMAIN tools
        /\ get_tool(TheWorld, call.tool_name) = None
        /\ \A t \in AllTags : call.tool_name \notin DOMAIN get_tools_by_tag(TheWorld, t))

\* a register_tool call with tags has returned in which the converter was
\* run and raised
C4_Witness ==
    /\ call.op = "register_tool"
    /\ call.converted = <<call.obj>>
    /\ convert_code_to_tool_schema(call.obj).raised
    /\ call.tags.val # <<>>
    /\ call.log # <<>>

WorldAt(ids, i, listing) ==
    validate_tool_names(TheWorld, SubSeq(ids, 1, i - 1), listing).w

IsPath(key) == IsDir(key) \/ IsFile(key)

\* an identifier that, in registry w, is no path, no tool name and no tag
Unresolvable(w, key) ==
    /\ ~IsPath(key)
    /\ key \notin DOMAIN w.tools
    /\ key \notin Range(ItemKeys(w.tools_by_tags))

\* what one identifier contributes when processed in registry w
Contribution(w, key, listing) ==
    IF IsPath(key)
    THEN register_tools_from_path(w, key, listing).ret
    ELSE IF key \in DOMAIN w.tools
    THEN [n \in {key} |-> w.tools[key]]
    ELSE IF key \in Range(ItemKeys(w.tools_by_tags))
    THEN ItemGet(w.tools_by_tags, key, EmptyDict)
    ELSE EmptyDict

\* C6: validate_tool_names returns the union, keyed by name, of what its
\* identifiers contribute in order (discovery's mapping for a path, the tool
\* for a tool name, the bucket for a tag, nothing otherwise): the names are
\* exactly those contributed, each with the value of its last contributor.
C6_ResultIsUnion ==
    [][(/\ call = Idle
        /\ call'.op = "validate_tool_names"
        /\ ~call'.raised)
       => LET ids == call'.ids
              contrib == {[i |-> i,
                           c |-> Contribution(WorldAt(ids, i, call'.listing), ids[i],
                                              call'.listing)] : i \in 1..Len(ids)}
          IN  /\ DOMAIN call'.ret = UNION {DOMAIN x.c : x \in contrib}
              /\ \A n \in DOMAIN call'.ret :
                    \E x \in contrib :
                        /\ n \in DOMAIN x.c
                        /\ \A y \in contrib : y.i > x.i => n \notin DOMAIN y.c
                        /\ call'.ret[n] = x.c[n]]_vars

\* validate_tool_names(["T", "W"]) has returned the tool under tag T together
\* with the tools discovered in directory W
C6_Witness ==
    /\ call.op = "validate_tool_names"
    /\ ~call.raised
    /\ call.ids = << <<"T">>, <<"W">> >>
    /\ DOMAIN call.ret = {<<"X">>, <<"f">>, <<"C">>}

\* the names of the classes and functions a file declares itself
DeclaredIn(file) ==
    {m.name : m \in {o \in Range(FileContent(file).members) :
                        /\ o.kind \in {"class", "function"}
                        /\ o.module = ModuleName(file)}}

\* the files at or below a path
FilesUnder(path) ==
    {f \in Files : Len(f) >= Len(path) /\ SubSeq(f, 1, Len(path)) = path}

\* C7: an identifier that is an existing file or directory is resolved by
\* discovery alone, also when it is a tool name or a tag: a call whose
\* identifiers are all paths returns only names declared in the files at or
\* below those paths.
C7_PathWins ==
    (/\ call.op = "validate_tool_names"
     /\ ~call.raised
     /\ \A i \in 1..Len(call.ids) : IsPath(call.ids[i]))
    => DOMAIN call.ret \subseteq
         UNION {DeclaredIn(f) : f \in UNION {FilesUnder(call.ids[i]) : i \in 1..Len(call.ids)}}

\* validate_tool_names(["X"]) has returned without tool X although X is a
\* directory, a registered tool name and a known tag
C7_Witness ==
    /\ call.op = "validate_tool_names"
    /\ ~call.raised
    /\ call.ids = << <<"X">> >>
    /\ has_tool(TheWorld, <<"X">>)
    /\ has_tool_tag(TheWorld, <<"X">>)
    /\ call.ret # EmptyDict
    /\ <<"X">> \notin DOMAIN call.ret

\* the identifiers logged as invalid, in order
Warnings(log) ==
    LET idx == {i \in 1..Len(log) : log[i].level = "warning"}
        nth(k) == CHOOSE i \in idx : Cardinality({j \in idx : j < i}) = k - 1
    IN  [k \in 1..Cardinality(idx) |-> log[nth(k)].about]

\* the positions of a list that are reached (no load failure before them) and
\* whose identifier is unresolvable when processed
UnresolvableAt(ids, listing) ==
    UNION {IF /\ ~IsPath(ids[i])
              /\ LET w == WorldAt(ids, i, listing)
                 IN  ~w.raised /\ Unresolvable(w, ids[i])
           THEN {i} ELSE {} : i \in 1..Len(ids)}

\* the list without the given positions
Without(ids, drop) ==
    LET idx == (1..Len(ids)) \ drop
        nth(k) == CHOOSE i \in idx : Cardinality({j \in idx : j < i}) = k - 1
    IN  [k \in 1..Cardinality(idx) |-> ids[nth(k)]]

\* C8: validate_tool_names logs a warning for exactly the identifiers that,
\* when processed, are no existing path, no tool name and no tag, once per
\* occurrence and in order; such an identifier contributes nothing (the result
\* is that of the list without it) and the identifiers after it are processed.
C8_WarnsExactlyUnresolvable ==
    [][(/\ call = Idle
        /\ call'.op = "validate_tool_names")
       => LET ids == call'.ids
              bad == UnresolvableAt(ids, call'.listing)
              rest == validate_tool_names(TheWorld, Without(ids, bad), call'.listing)
          IN  /\ Warnings(call'.log) = [k \in 1..Cardinality(bad) |->
                    ids[CHOOSE i \in bad : Cardinality({j \in bad : j < i}) = k - 1]]
              /\ bad # {} =>
                    /\ call'.raised = rest.w.raised
                    /\ ~call'.raised => call'.ret = rest.ret
                    /\ tools' = rest.w.tools
                    /\ tools_by_tags' = rest.w.tools_by_tags]_vars

\* validate_tool_names(["U", "X"]) has warned about U only and returned what
\* the directory X holds
C8_Witness ==
    /\ call.op = "validate_tool_names"
    /\ ~call.raised
    /\ call.ids = << <<"U">>, <<"X">> >>
    /\ Warnings(call.log) = << <<"U">> >>
    /\ <<"T">> \in DOMAIN call.ret

\* C9: every entry of the mapping returned by register_tools_from_file,
\* register_tools_from_path and validate_tool_names maps a name to the Tool
\* the registry holds under that name when the operation returns.
C9_ReturnedToolsAreStored ==
    (call.op \in MappingOps /\ ~call.raised)
    => \A n \in DOMAIN call.ret :
          /\ call.ret[n] # None
          /\ has_tool(TheWorld, n)
          /\ call.ret[n] = get_tool(TheWorld, n)

DefinedIn(file) ==
    {o \in Range(FileContent(file).members) :
        o.kind \in {"class", "function"} /\ o.file = file}

\* how often an element occurs in a sequence
Count(x, seq) == Cardinality({i \in 1..Len(seq) : seq[i] = x})

\* C11: discovery hands to registration every class and function defined in
\* a file it scans and no symbol the file only imports: a tool it adds is
\* defined in a scanned file and carries that file's path, and every
\* definition of a scanned file is in the returned mapping, converted once if
\* its name was free and stored if its conversion succeeds. With W/a.py
\* defining f and W/b.py importing f and defining C, scanning W in either
\* order registers f and C once each, f under W/a.py and C under W/b.py, and
\* scanning W/b.py alone does not register f.
C11_RegistersOwnDefinitionsOnly ==
    [][(/\ call = Idle
        /\ call'.op \in {"register_tools_from_file", "register_tools_from_path"})
       => LET scanned == Range(call'.loaded)
              added == DOMAIN tools' \ DOMAIN tools
          IN  /\ \A o \in Range(call'.converted) : o.file \in scanned
              /\ \A n \in added :
                    \E file \in scanned : \E o \in DefinedIn(file) :
                        /\ o.name = n
                        /\ tools'[n].path = NormalizePath(file)
              /\ ~call'.raised =>
                    \A file \in scanned : \A o \in DefinedIn(file) :
                        /\ o.name \in DOMAIN call'.ret
                        /\ o.name \notin DOMAIN tools => Count(o, call'.converted) = 1
                        /\ o.name \in DOMAIN tools => Count(o, call'.converted) = 0
                        /\ (/\ ~convert_code_to_tool_schema(o).raised
                            /\ convert_code_to_tool_schema(o).schema # EmptyDict)
                           => o.name \in DOMAIN tools'
              /\ (/\ call'.path = <<"W">>
                  /\ <<"f">> \notin DOMAIN tools
                  /\ <<"C">> \notin DOMAIN tools)
                 => /\ added = {<<"f">>, <<"C">>}
                    /\ DOMAIN call'.ret = {<<"f">>, <<"C">>}
                    /\ tools'[<<"f">>].path = FileA
                    /\ tools'[<<"C">>].path = FileB
                    /\ Count(Obj_f, call'.converted) = 1
                    /\ Count(Obj_C, call'.converted) = 1
              /\ (call'.path = FileB /\ <<"f">> \notin DOMAIN tools)
                 => /\ <<"f">> \notin DOMAIN tools'
                    /\ <<"f">> \notin DOMAIN call'.ret
                    /\ Obj_f \notin Range(call'.converted)]_vars

\* register_tools_from_path("W") has visited W/b.py before W/a.py and
\* registered C under W/b.py and f under W/a.py
C11_Witness ==
    /\ call.op = "register_tools_from_path"
    /\ call.path = <<"W">>
    /\ call.loaded = <<FileB, FileA>>
    /\ call.converted = <<Obj_C, Obj_f>>
    /\ get_tool(TheWorld, <<"f">>).path = FileA
    /\ get_tool(TheWorld, <<"C">>).path = FileB

\* the registrations the last operation made: the name stored, the code
\* object it was made from and the schema file it was given
Registered ==
    IF call.op = "register_tool"
    THEN IF call.converted # <<>> /\ has_tool(TheWorld, call.tool_name)
         THEN {[name |-> call.tool_name, obj |-> call.obj, file |-> call.schema_path]}
         ELSE {}
    ELSE IF call.op \in MappingOps
    THEN {[name |-> o.name, obj |-> o, file |-> SchemaPath(<<>>, o.name)] :
            o \in {x \in Range(call.converted) :
                      /\ ~convert_code_to_tool_schema(x).raised
                      /\ convert_code_to_tool_schema(x).schema # EmptyDict}}
    ELSE {}

\* C12 as stated: after a successful registration the schema file of the tool
\* holds the schema stored in the Tool record, tool_path entry included.
C12_SchemaFileEqualsStoredSchema ==
    \A reg \in Registered :
        /\ reg.file \in DOMAIN schema_files
        /\ schema_files[reg.file] = get_tool(TheWorld, reg.name).schemas

\* C12, amended: after a successful registration the schema file of the tool
\* holds the schema the converter produced, and the schema stored in the Tool
\* record is that content with tool_path set to the tool's source path.
C12_SchemaFileIsConverterSchema ==
    \A reg \in Registered :
        /\ reg.file \in DOMAIN schema_files
        /\ schema_files[reg.file] = convert_code_to_tool_schema(reg.obj).schema
        /\ get_tool(TheWorld, reg.name).schemas =
              DictUpdate(schema_files[reg.file],
                         [k \in {"tool_path"} |-> get_tool(TheWorld, reg.name).path])
        /\ schema_files[reg.file] # get_tool(TheWorld, reg.name).schemas

\* a declaration with its own schema path has registered tool X and written
\* the schema file there
C12_Witness ==
    /\ call.op = "register_tool"
    /\ call.schema_path = <<"out", "s", ".yml">>
    /\ Registered # {}
    /\ call.schema_path \in DOMAIN schema_files
    /\ "tool_path" \in DOMAIN get_tool(TheWorld, call.tool_name).schemas

\* a file name with the extension of Python source
PySource(f) == Len(f) > 0 /\ f[Len(f)] = ".py"

\* the files a list of identifiers asks to load, in order, if none fails
RECURSIVE ToLoad(_, _)
ToLoad(ids, listing) ==
    IF ids = <<>>
    THEN <<>>
    ELSE (IF IsDir(Head(ids)) THEN SelectSeq(WalkFiles(Head(ids), listing), PySource)
          ELSE IF IsFile(Head(ids)) /\ PySource(Head(ids)) THEN <<Head(ids)>>
          ELSE <<>>)
         \o ToLoad(Tail(ids), listing)

\* the positions of the files that fail to load
Failing(files) == {i \in 1..Len(files) : FileContent(files[i]).raises}

\* the smallest member of a non-empty set of numbers
Min(S) == CHOOSE i \in S : \A j \in S : i <= j

\* C13: a file that fails to load makes register_tools_from_path and
\* validate_tool_names end in an error with no mapping returned; the files up
\* to the failing one have been loaded and none after it, the identifiers
\* after it are not processed, and what was registered before the failure
\* stays in the store.
C13_LoadFailurePropagates ==
    [][(/\ call = Idle
        /\ call'.op \in {"register_tools_from_path", "validate_tool_names"})
       => LET ids == IF call'.op = "validate_tool_names"
                     THEN call'.ids ELSE <<call'.path>>
              files == ToLoad(ids, call'.listing)
              bad == Failing(files)
          IN  /\ call'.raised <=> bad # {}
              /\ bad # {} =>
                    /\ call'.ret = None
                    /\ call'.loaded = SubSeq(files, 1, Min(bad))
                    /\ \A i \in 1..Len(ids) :
                          Failing(ToLoad(SubSeq(ids, 1, i), call'.listing)) # {}
                          => \A j \in i..Len(ids) :
                                Unresolvable(TheWorldNext, ids[j])
                                => \A k \in 1..Len(call'.log) :
                                      call'.log[k].about # ids[j]
                                      \/ \E m \in 1..(i - 1) : ids[m] = ids[j]
                    /\ \A n \in DOMAIN tools : get_tool(TheWorldNext, n) = tools[n]
                    /\ \A i \in 1..(Min(bad) - 1) : \A o \in DefinedIn(files[i]) :
                          (/\ ~convert_code_to_tool_schema(o).raised
                           /\ convert_code_to_tool_schema(o).schema # EmptyDict)
                          => has_tool(TheWorldNext, o.name)]_vars

\* validate_tool_names(["W", "Z"]) has registered the tools of W and then
\* failed on Z/bad.py, listed before Z/e.py, which was not loaded
C13_Witness ==
    /\ call.op = "validate_tool_names"
    /\ call.raised
    /\ call.ids = << <<"W">>, <<"Z">> >>
    /\ call.listing[<<"Z">>].files = << <<"bad", ".py">>, <<"e", ".py">> >>
    /\ Len(call.loaded) = 3
    /\ call.loaded[3] = FileBad
    /\ call.converted # <<>>
    /\ has_tool(TheWorld, <<"C">>)

\* C14: register_tools_from_path loads only files whose name ends in ".py": a
\* directory walk loads every such file at or below the directory and skips
\* the others, and a single existing file of another extension gives the
\* empty mapping, loads and converts nothing, leaves the store and the schema
\* files as they are, logs nothing and raises nothing.
C14_OnlySourceFilesAreLoaded ==
    [][(/\ call = Idle
        /\ call'.op = "register_tools_from_path")
       => /\ \A f \in Range(call'.loaded) : PySource(f)
          /\ (IsDir(call'.path) /\ ~call'.raised)
             => Range(call'.loaded) = {f \in FilesUnder(call'.path) : PySource(f)}
          /\ (IsFile(call'.path) /\ ~PySource(call'.path))
             => /\ ~call'.raised
                /\ call'.ret = EmptyDict
                /\ call'.loaded = <<>>
                /\ call'.converted = <<>>
                /\ call'.log = <<>>
                /\ tools' = tools
                /\ tools_by_tags' = tools_by_tags
                /\ schema_files' = schema_files]_vars

\* register_tools_from_path("X/n.txt") has returned the empty mapping on a
\* registry that holds tools
C14_Witness ==
    /\ call.op = "register_tools_from_path"
    /\ call.path = FileTxt
    /\ ~call.raised
    /\ call.ret = EmptyDict
    /\ call.loaded = <<>>
    /\ tools # EmptyDict

\* the @register_tool declarations that ran while the given files were loaded
DeclarationsOf(files) ==
    UNION {Range(FileContent(files[i]).decorated) : i \in 1..Len(files)}

\* C15: a tool that register_tools_from_file or register_tools_from_path adds
\* by its own registration call has empty source text and no tags; the tag
\* index changes during such an operation only through @register_tool
\* declarations that run while a file is loaded: without any, it is
\* unchanged, and a tag that becomes known, or a name that enters a bucket,
\* comes from such a declaration.
C15_DiscoveryAddsUntaggedTools ==
    [][(/\ call = Idle
        /\ call'.op \in {"register_tools_from_file", "register_tools_from_path"})
       => LET declared == DeclarationsOf(call'.loaded)
              added == DOMAIN tools' \ DOMAIN tools
          IN  /\ \A n \in added :
                    \/ \E d \in declared : d.obj.name = n
                    \/ /\ tools'[n].code = <<>>
                       /\ tools'[n].tags = <<>>
              /\ declared = {} => tools_by_tags' = tools_by_tags
              /\ \A t \in Range(get_tool_tags(TheWorldNext)) :
                    /\ ~has_tool_tag(TheWorld, t)
                       => \E d \in declared : t \in Range(d.tags.val)
                    /\ \A n \in DOMAIN get_tools_by_tag(TheWorldNext, t) :
                          n \notin DOMAIN get_tools_by_tag(TheWorld, t)
                          => \E d \in declared :
                                d.obj.name = n /\ t \in Range(d.tags.val)]_vars

\* register_tools_from_path("W") has added f and C, untagged and without
\* source text, to a registry whose tag index is not empty
C15_Witness ==
    /\ call.op = "register_tools_from_path"
    /\ call.path = <<"W">>
    /\ Len(call.converted) = 2
    /\ tools_by_tags # <<>>
    /\ \A n \in {<<"f">>, <<"C">>} :
          /\ has_tool(TheWorld, n)
          /\ get_tool(TheWorld, n).code = <<>>
          /\ get_tool(TheWorld, n).tags = <<>>

\* the operations that only read the registry
QueryOps ==
    {"has_tool", "get_tool", "has_tool_tag", "get_tools_by_tag", "get_all_tools",
     "get_tool_tags"}

\* C16: has_tool, get_tool, has_tool_tag, get_tools_by_tag, get_all_tools and
\* get_tool_tags leave the primary mapping, the tag index and the schema
\* files unchanged; get_tools_by_tag for a tag that is not known returns the
\* empty mapping and the tag is still not known afterwards.
C16_QueriesChangeNothing ==
    [][(/\ call = Idle
        /\ call'.op \in QueryOps)
       => /\ tools' = tools
          /\ tools_by_tags' = tools_by_tags
          /\ schema_files' = schema_files
          /\ (/\ call'.op = "get_tools_by_tag"
              /\ call'.key \notin Range(ItemKeys(tools_by_tags)))
             => /\ call'.ret = EmptyDict
                /\ call'.key \notin Range(get_tool_tags(TheWorldNext))
                /\ ~has_tool_tag(TheWorldNext, call'.key)]_vars

\* get_tools_by_tag has returned the empty mapping for a tag that is not
\* known, in a registry that knows other tags
C16_Witness ==
    /\ call.op = "get_tools_by_tag"
    /\ call.ret = EmptyDict
    /\ ~has_tool_tag(TheWorld, call.key)
    /\ get_tool_tags(TheWorld) # <<>>

\* C17: a validate_tool_names call none of whose identifiers is an existing
\* file or directory leaves the primary mapping and the tag index unchanged:
\* it loads no file, converts nothing, writes no schema file and does not
\* raise.
C17_NoPathNoChange ==
    [][(/\ call = Idle
        /\ call'.op = "validate_tool_names"
        /\ \A i \in 1..Len(call'.ids) : ~IsPath(call'.ids[i]))
       => /\ tools' = tools
          /\ tools_by_tags' = tools_by_tags
          /\ schema_files' = schema_files
          /\ call'.loaded = <<>>
          /\ call'.converted = <<>>
          /\ ~call'.raised]_vars

\* validate_tool_names(["T", "U"]) has returned the tools under tag T and
\* warned about U
C17_Witness ==
    /\ call.op = "validate_tool_names"
    /\ call.ids = << <<"T">>, <<"U">> >>
    /\ call.ret # EmptyDict
    /\ Warnings(call.log) = << <<"U">> >>
    /\ ~has_tool(TheWorld, <<"T">>)

\* the reorderings of an identifier list
Reorderings(ids) ==
    {[i \in 1..Len(ids) |-> ids[s[i]]] : s \in Perms(1..Len(ids))}

\* every reordering of the identifiers of the call being made returns, from
\* the registry the call started in, a mapping with the names the call returns
SameNamesInAnyOrder ==
    \A p \in Reorderings(call'.ids) \ {call'.ids} :
        \A r \in {validate_tool_names(TheWorld, p, call'.listing)} :
            /\ ~r.w.raised
            /\ DOMAIN r.ret = DOMAIN call'.ret

\* an identifier of the call being made that is no path, is a known tag and
\* no tool name when the call starts, and is the name of a tool the call adds
TagBecomesToolName ==
    \E i \in 1..Len(call'.ids) :
        /\ ~IsPath(call'.ids[i])
        /\ has_tool_tag(TheWorld, call'.ids[i])
        /\ ~has_tool(TheWorld, call'.ids[i])
        /\ has_tool(TheWorldNext, call'.ids[i])

C19_KnownTagsAreCarriedTags ==
    LET listed == get_tool_tags(TheWorld)
        carried == UNION {Range(tools[n].tags) : n \in DOMAIN tools}
    IN  /\ \A t \in AllTags \cup carried :
              /\ has_tool_tag(TheWorld, t) <=> get_tools_by_tag(TheWorld, t) # EmptyDict
              /\ has_tool_tag(TheWorld, t) <=> t \in carried
        /\ \A i, j \in 1..Len(listed) : listed[i] = listed[j] => i = j
        /\ Range(listed) = carried

\* a tool declared with tags ["f", "X", "f"] is stored, get_tool_tags lists f
\* and X once each, and a registration given a tag that is not known has been
\* dropped because the converter raised
C19_Witness ==
    /\ call.op = "register_tool"
    /\ convert_code_to_tool_schema(call.obj).raised
    /\ call.converted = <<call.obj>>
    /\ call.tags.val # <<>>
    /\ \A t \in Range(call.tags.val) : ~has_tool_tag(TheWorld, t)
    /\ get_tool_tags(TheWorld) = << <<"f">>, <<"X">> >>
    /\ \E n \in DOMAIN tools : tools[n].tags = << <<"f">>, <<"X">>, <<"f">> >>

====
